---- MODULE Spec2Model ----
(***************************************************************************)
(* json-deep-dive: the App shell (tabs, active tab, parse effect, paste    *)
(* and clear handlers, toast), the JsonViewer (three presentations and the *)
(* two broadcast counters) and the recursive JsonNode (per-node expanded   *)
(* flag, mount/update effects on the counters, conditional children, the  *)
(* rows a node renders and its Copy button), the theme (saved item, root   *)
(* class, media query listener) and the Paste button's clipboard read.     *)
(*                                                                         *)
(* A text is a sequence of lexical tokens; JSON.parse is a recursive       *)
(* descent over it.  A JsonNode instance is identified by its position:    *)
(* the sequence of child indices from the root (React keeps an instance    *)
(* while the same position is rendered, key={index}).                      *)
(***************************************************************************)
EXTENDS Integers, Sequences, FiniteSets, TLC

(***************************************************************************)
(* Bounds of the model.                                                    *)
(***************************************************************************)
MaxTabs == 2
MaxNow == 1
MaxSignal == 1
MaxPending == 1
MaxLen == 3
PageLoadTime == 1000

(***************************************************************************)
(* Lexical tokens of a text.                                               *)
(***************************************************************************)
Tok(k, s) == [k |-> k, s |-> s]
TWs == Tok("ws", " ")
TPunct(s) == Tok("punct", s)
TStr(s) == Tok("str", s)
TNum(s) == Tok("num", s)
TLit(s) == Tok("lit", s)

(***************************************************************************)
(* JsonValue (types.ts).  js is the JavaScript runtime type of the value,  *)
(* lit the text of a scalar, elems the entries of a container in           *)
(* Object.entries order (an array's keys are its indices).                 *)
(***************************************************************************)
JsonValue(js, lit, elems) == [js |-> js, lit |-> lit, elems |-> elems]
JsNull == JsonValue("null", "null", <<>>)
JsString(s) == JsonValue("string", s, <<>>)
JsNumber(s) == JsonValue("number", s, <<>>)
JsBoolean(s) == JsonValue("boolean", s, <<>>)
JsArray(elems) == JsonValue("array", "", elems)
JsObject(elems) == JsonValue("object", "", elems)
Undefined == JsonValue("undefined", "", <<>>)
Entry(key, val) == [key |-> key, val |-> val]

DataType == {"STRING", "NUMBER", "BOOLEAN", "NULL", "OBJECT", "ARRAY", "UNKNOWN"}

\* JavaScript's typeof: null and arrays are objects
Typeof(value) ==
    IF value.js \in {"null", "array", "object"} THEN "object" ELSE value.js
IsArray(value) == value.js = "array"

\* mutant: the test for a composite made before the tests for null and arrays
getDataType_ObjectFirst(value) ==
    IF Typeof(value) = "object" THEN "OBJECT"
    ELSE IF value = JsNull THEN "NULL"
    ELSE IF IsArray(value) THEN "ARRAY"
    ELSE IF Typeof(value) = "string" THEN "STRING"
    ELSE IF Typeof(value) = "number" THEN "NUMBER"
    ELSE IF Typeof(value) = "boolean" THEN "BOOLEAN"
    ELSE "UNKNOWN"
getDataType(value) ==
    IF value = JsNull THEN "NULL"
    ELSE IF IsArray(value) THEN "ARRAY"
    ELSE IF Typeof(value) = "object" THEN "OBJECT"
    ELSE IF Typeof(value) = "string" THEN "STRING"
    ELSE IF Typeof(value) = "number" THEN "NUMBER"
    ELSE IF Typeof(value) = "boolean" THEN "BOOLEAN"
    ELSE "UNKNOWN"

\* The Number a numeric literal denotes, written as String(number) writes
\* it: a literal beyond the range of a double denotes Infinity.
NumberValue(s) ==
    IF s = "1e999" THEN "Infinity"
    ELSE IF s = "1.0" THEN "1"
    ELSE s

(***************************************************************************)
(* JSON.parse over a token sequence.  A result is [ok, val, pos, msg].     *)
(***************************************************************************)
Ok(val, pos) == [ok |-> TRUE, val |-> val, pos |-> pos, msg |-> ""]
Fail(msg) == [ok |-> FALSE, val |-> Undefined, pos |-> 0, msg |-> msg]
UnexpectedEnd == "Unexpected end of JSON input"
UnexpectedToken == "Unexpected token"

RECURSIVE SkipWs(_, _)
SkipWs(toks, i) ==
    IF i <= Len(toks) /\ toks[i].k = "ws" THEN SkipWs(toks, i + 1) ELSE i

\* a repeated key keeps its first position and takes the last value
PutEntry(elems, key, val) ==
    IF \E i \in 1..Len(elems) : elems[i].key = key
    THEN [i \in 1..Len(elems) |->
            IF elems[i].key = key THEN Entry(key, val) ELSE elems[i]]
    ELSE Append(elems, Entry(key, val))

RECURSIVE ParseValue(_, _), ParseElements(_, _, _), ParseMembers(_, _, _)
ParseValue(toks, i) ==
    LET j == SkipWs(toks, i) IN
    IF j > Len(toks) THEN Fail(UnexpectedEnd)
    ELSE LET t == toks[j] IN
         IF t.k = "str" THEN Ok(JsString(t.s), j + 1)
         ELSE IF t.k = "num" THEN Ok(JsNumber(NumberValue(t.s)), j + 1)
         ELSE IF t = TLit("null") THEN Ok(JsNull, j + 1)
         ELSE IF t = TLit("true") \/ t = TLit("false") THEN Ok(JsBoolean(t.s), j + 1)
         ELSE IF t = TPunct("[") THEN
              LET k == SkipWs(toks, j + 1) IN
              IF k <= Len(toks) /\ toks[k] = TPunct("]") THEN Ok(JsArray(<<>>), k + 1)
              ELSE ParseElements(toks, j + 1, <<>>)
         ELSE IF t = TPunct("{") THEN
              LET k == SkipWs(toks, j + 1) IN
              IF k <= Len(toks) /\ toks[k] = TPunct("}") THEN Ok(JsObject(<<>>), k + 1)
              ELSE ParseMembers(toks, j + 1, <<>>)
         ELSE Fail(UnexpectedToken)

ParseElements(toks, i, acc) ==
    LET r == ParseValue(toks, i) IN
    IF ~r.ok THEN r
    ELSE LET elems == Append(acc, Entry(ToString(Len(acc)), r.val))
             k == SkipWs(toks, r.pos)
         IN  IF k > Len(toks) THEN Fail(UnexpectedEnd)
             ELSE IF toks[k] = TPunct(",") THEN ParseElements(toks, k + 1, elems)
             ELSE IF toks[k] = TPunct("]") THEN Ok(JsArray(elems), k + 1)
             ELSE Fail(UnexpectedToken)

ParseMembers(toks, i, acc) ==
    LET j == SkipWs(toks, i) IN
    IF j > Len(toks) THEN Fail(UnexpectedEnd)
    ELSE IF toks[j].k # "str" THEN Fail(UnexpectedToken)
    ELSE LET c == SkipWs(toks, j + 1) IN
         IF c > Len(toks) THEN Fail(UnexpectedEnd)
         ELSE IF toks[c] # TPunct(":") THEN Fail(UnexpectedToken)
         ELSE LET r == ParseValue(toks, c + 1) IN
              IF ~r.ok THEN r
              ELSE LET elems == PutEntry(acc, toks[j].s, r.val)
                       k == SkipWs(toks, r.pos)
                   IN  IF k > Len(toks) THEN Fail(UnexpectedEnd)
                       ELSE IF toks[k] = TPunct(",") THEN ParseMembers(toks, k + 1, elems)
                       ELSE IF toks[k] = TPunct("}") THEN Ok(JsObject(elems), k + 1)
                       ELSE Fail(UnexpectedToken)

\* The own keys of a JavaScript object are enumerated (Object.entries,
\* Object.keys, JSON.stringify) with the integer-like keys first, in
\* ascending numeric order, and the other keys after them in the order they
\* were created.  ParseValue creates the properties in the order of the text.
IsIndexKey(key) == key \in {"0", "1", "2"}
KeyIndex(key) == IF key = "0" THEN 0 ELSE IF key = "1" THEN 1 ELSE 2

RECURSIVE SortedIndexEntries(_, _)
SortedIndexEntries(elems, S) ==
    IF S = {} THEN <<>>
    ELSE LET m == CHOOSE i \in S :
                    \A j \in S : KeyIndex(elems[i].key) <= KeyIndex(elems[j].key)
         IN  <<elems[m]>> \o SortedIndexEntries(elems, S \ {m})

OwnEntries(elems) ==
    SortedIndexEntries(elems, {i \in 1..Len(elems) : IsIndexKey(elems[i].key)})
    \o SelectSeq(elems, LAMBDA e : ~IsIndexKey(e.key))

RECURSIVE OwnKeysOrder(_)
OwnKeysOrder(value) ==
    LET inner == [i \in 1..Len(value.elems) |->
                    Entry(value.elems[i].key, OwnKeysOrder(value.elems[i].val))]
    IN  IF value.js = "object" THEN [value EXCEPT !.elems = OwnEntries(inner)]
        ELSE [value EXCEPT !.elems = inner]

JSONparse(toks) ==
    LET r == ParseValue(toks, 1) IN
    IF ~r.ok THEN r
    ELSE IF SkipWs(toks, r.pos) <= Len(toks) THEN Fail(UnexpectedToken)
    ELSE [r EXCEPT !.val = OwnKeysOrder(r.val)]

\* error is null (<<>>) or a message (<<msg>>)
Null == <<>>
\* mutant: the failure is swallowed, no diagnostic is returned
safeJsonParse_Swallowed(input) == [parsed |-> JSONparse(input).val, error |-> Null]
safeJsonParse(input) ==
    LET r == JSONparse(input) IN
    IF r.ok THEN [parsed |-> r.val, error |-> Null]
    ELSE [parsed |-> Undefined, error |-> <<r.msg>>]

\* String.prototype.trim: leading and trailing white space removed
RECURSIVE TrimStart(_)
TrimStart(toks) ==
    IF toks # <<>> /\ Head(toks).k = "ws" THEN TrimStart(Tail(toks)) ELSE toks
RECURSIVE TrimEnd(_)
TrimEnd(toks) ==
    IF toks # <<>> /\ toks[Len(toks)].k = "ws"
    THEN TrimEnd(SubSeq(toks, 1, Len(toks) - 1)) ELSE toks
Trim(toks) == TrimEnd(TrimStart(toks))

(***************************************************************************)
(* Texts.  DEFAULT_JSON is the initial content of the first tab; PasteTexts*)
(* are the texts the user pastes.                                          *)
(***************************************************************************)
DEFAULT_JSON ==
    << TPunct("{"), TWs, TStr("welcome"), TPunct(":"), TWs, TStr("JSON Deep Dive"), TPunct(","),
       TWs, TStr("tips"), TPunct(":"), TWs, TPunct("["),
       TWs, TStr("Paste your JSON directly with Ctrl+V"), TPunct(","),
       TWs, TStr("Or click the 'Paste' button below"), TPunct(","),
       TWs, TStr("Use tabs to manage multiple JSON files"),
       TWs, TPunct("]"), TPunct(","),
       TWs, TStr("features"), TPunct(":"), TWs, TPunct("{"),
       TWs, TStr("validation"), TPunct(":"), TWs, TLit("true"), TPunct(","),
       TWs, TStr("collapsible"), TPunct(":"), TWs, TLit("true"), TPunct(","),
       TWs, TStr("highlighting"), TPunct(":"), TWs, TStr("syntax"), TPunct(","),
       TWs, TStr("tabs"), TPunct(":"), TWs, TPunct("{"),
       TWs, TStr("enabled"), TPunct(":"), TWs, TLit("true"), TPunct(","),
       TWs, TStr("multiInstance"), TPunct(":"), TWs, TLit("true"),
       TWs, TPunct("}"),
       TWs, TPunct("}"), TPunct(","),
       TWs, TStr("isSimple"), TPunct(":"), TWs, TLit("true"),
       TWs, TPunct("}") >>

\* {"a":{"b":{"c":[1]}},"d":[]}
DeepText ==
    << TPunct("{"), TStr("a"), TPunct(":"), TPunct("{"), TStr("b"), TPunct(":"), TPunct("{"),
       TStr("c"), TPunct(":"), TPunct("["), TNum("1"), TPunct("]"), TPunct("}"), TPunct("}"),
       TPunct(","), TStr("d"), TPunct(":"), TPunct("["), TPunct("]"), TPunct("}") >>
\* [1,2,
BadText == << TPunct("["), TNum("1"), TPunct(","), TNum("2"), TPunct(",") >>
EmptyText == << >>

PasteTexts == {DeepText, BadText}

\* [[],1,"a",{}]
SiblingsText ==
    << TPunct("["), TPunct("["), TPunct("]"), TPunct(","), TNum("1"), TPunct(","),
       TStr("a"), TPunct(","), TPunct("{"), TPunct("}"), TPunct("]") >>
\* {a:1}
BareKeyText == << TPunct("{"), Tok("raw", "a"), TPunct(":"), TNum("1"), TPunct("}") >>
\* [1.0,1e999]
NumbersText ==
    << TPunct("["), TNum("1.0"), TPunct(","), TNum("1e999"), TPunct("]") >>
\* {"b":1,"2":[null],"1":{}}
IndexKeysText ==
    << TPunct("{"), TStr("b"), TPunct(":"), TNum("1"), TPunct(","),
       TStr("2"), TPunct(":"), TPunct("["), TLit("null"), TPunct("]"), TPunct(","),
       TStr("1"), TPunct(":"), TPunct("{"), TPunct("}"), TPunct("}") >>
SampleTexts == PasteTexts \cup {SiblingsText, BareKeyText, NumbersText, IndexKeysText}

\* every text of at most n tokens of a small alphabet
Alphabet ==
    { TWs, TPunct("["), TPunct("]"), TPunct("{"), TPunct("}"), TPunct(","), TPunct(":"),
      TStr("a"), TNum("1"), TLit("null"), Tok("raw", "x") }
TextsUpTo(n) == UNION { [1..k -> Alphabet] : k \in 0..n }

(***************************************************************************)
(* State.                                                                  *)
(*   tabs, activeTabId, toast, parsedData, error : App's useState cells    *)
(*   toastTimer : the timeout of the mounted Toast: none (no Toast),       *)
(*     armed (running) or due (4000 ms have passed since it was set)       *)
(*   expandSignal, collapseSignal : JsonViewer's useState cells            *)
(*   nodes : the mounted JsonNode instances, position -> expanded          *)
(*   now : milliseconds elapsed since the page was loaded                  *)
(*   toggled, lastOp : history variables (a node of the mounted viewer     *)
(*     instance was toggled; the last user operation)                      *)
(*   theme : App's useState cell of the theme mode                         *)
(*   savedTheme : localStorage's item 'theme' (Null when absent)           *)
(*   prefersDark : the system's (prefers-color-scheme: dark)               *)
(*   isDark : the class 'dark' is on the document's root element           *)
(*   listeners : the registered 'change' listeners of the media query,     *)
(*     each the theme its applyTheme closure captured                      *)
(*   startupTheme : history variable, the item 'theme' read at startup     *)
(*   clipboard : the text on the system clipboard                          *)
(*   pending : the clipboard reads in flight, each with the activeTabId    *)
(*     its handlePasteFromClipboard closure captured (id) and, as history, *)
(*     the present position of the tab that was active then (tab, 0 once   *)
(*     that tab is closed)                                                 *)
(***************************************************************************)
VARIABLES tabs, activeTabId, toast, toastTimer, parsedData, error,
          expandSignal, collapseSignal, nodes, now, toggled, lastOp,
          theme, savedTheme, prefersDark, isDark, listeners, startupTheme,
          clipboard, pending

themeVars == <<theme, savedTheme, prefersDark, isDark, listeners, startupTheme>>
clipVars == <<clipboard, pending>>
vars == <<tabs, activeTabId, toast, toastTimer, parsedData, error,
          expandSignal, collapseSignal, nodes, now, toggled, lastOp,
          themeVars, clipVars>>

Tab(id, title, content) == [id |-> id, title |-> title, content |-> content]
Toast(msg, type) == <<[msg |-> msg, type |-> type]>>

\* mutant: the timeout set when the Toast is mounted and never set again
ToastTimerAfter_SetOnce(t, rendered, timer) ==
    IF t = <<>> THEN "none"
    ELSE IF timer = "none" THEN "armed"
    ELSE timer
\* The timeout after a commit that leaves the toast cell t: clearTimeout when
\* the Toast is unmounted; when App rendered, onClose is a new function and
\* the effect clears the timeout and sets a new one.
ToastTimerAfter(t, rendered, timer) ==
    IF t = <<>> THEN "none"
    ELSE IF rendered THEN "armed"
    ELSE timer

DateNow == ToString(PageLoadTime + now)

\* tabs.find(t => t.id === activeTabId) || tabs[0]
ActiveTabOf(ts, aid) ==
    IF \E i \in 1..Len(ts) : ts[i].id = aid
    THEN ts[CHOOSE i \in 1..Len(ts) :
                /\ ts[i].id = aid
                /\ \A j \in 1..(i - 1) : ts[j].id # aid]
    ELSE ts[1]
activeTab == ActiveTabOf(tabs, activeTabId)
\* the position of the tab that find returns (tabs[0] when none matches)
ActivePosition ==
    IF \E i \in 1..Len(tabs) : tabs[i].id = activeTabId
    THEN CHOOSE i \in 1..Len(tabs) :
            /\ tabs[i].id = activeTabId
            /\ \A j \in 1..(i - 1) : tabs[j].id # activeTabId
    ELSE 1

(***************************************************************************)
(* JsonNode.                                                               *)
(***************************************************************************)
isExpandable(value) == getDataType(value) \in {"OBJECT", "ARRAY"}
isEmpty(value) == isExpandable(value) /\ Len(value.elems) = 0

\* mutant: the third level open by default as well
InitialExpanded_ThreeLevels(depth) == depth < 3
\* useState<boolean>(depth < 2)
InitialExpanded(depth) == depth < 2
\* useEffect(() => { if (expandAllSignal > 0) setExpanded(true) }, [expandAllSignal])
ExpandEffect(expanded, expandAllSignal) ==
    IF expandAllSignal > 0 THEN TRUE ELSE expanded
\* mutant: the collapse counter is ignored
CollapseEffect_Ignored(expanded, collapseAllSignal) == expanded
\* useEffect(() => { if (collapseAllSignal > 0) setExpanded(false) }, [collapseAllSignal])
CollapseEffect(expanded, collapseAllSignal) ==
    IF collapseAllSignal > 0 THEN FALSE ELSE expanded

\* The expanded flag of the instance at a position once its effects have run.
\* An instance that stays mounted keeps its flag and runs only the effect
\* whose counter changed; a new instance starts from useState's initial
\* value and runs both effects, in the order they are declared.
\* mutant: the two effects skipped when an instance is mounted
SettledExpanded_NoMountEffects(path, depth, old, es, cs, esChanged, csChanged) ==
    LET kept == path \in DOMAIN old
        s0 == IF kept THEN old[path] ELSE InitialExpanded(depth)
        s1 == IF esChanged THEN ExpandEffect(s0, es) ELSE s0
    IN  IF csChanged THEN CollapseEffect(s1, cs) ELSE s1
SettledExpanded(path, depth, old, es, cs, esChanged, csChanged) ==
    LET kept == path \in DOMAIN old
        s0 == IF kept THEN old[path] ELSE InitialExpanded(depth)
        s1 == IF ~kept \/ esChanged THEN ExpandEffect(s0, es) ELSE s0
    IN  IF ~kept \/ csChanged THEN CollapseEffect(s1, cs) ELSE s1

ChildDepth(depth) == depth + 1

\* The instances mounted under (and including) one JsonNode, as a set of
\* <<position, expanded>>: children are rendered only by an expanded,
\* non-empty container, each with depth + 1 and the same two counters.
RECURSIVE JsonNode(_, _, _, _, _, _, _, _)
JsonNode(value, path, depth, old, es, cs, esChanged, csChanged) ==
    LET expanded == SettledExpanded(path, depth, old, es, cs, esChanged, csChanged)
    IN  {<<path, expanded>>} \cup
        IF isExpandable(value) /\ expanded /\ ~isEmpty(value)
        THEN UNION { JsonNode(value.elems[i].val, Append(path, i), ChildDepth(depth),
                              old, es, cs, esChanged, csChanged) :
                     i \in 1..Len(value.elems) }
        ELSE {}

NoNodes == [p \in {} |-> TRUE]
AsNodes(pairs) == [p \in {q[1] : q \in pairs} |-> \E q \in pairs : q[1] = p /\ q[2]]

(***************************************************************************)
(* JsonViewer.                                                             *)
(***************************************************************************)
Truthy(err) == err # Null /\ err[1] # ""
ViewState(data, err) ==
    IF Truthy(err) THEN "Error"
    ELSE IF data = Undefined THEN "Empty"
    ELSE "Loaded"

\* the root JsonNode: keyName null, depth defaulted to 0, isLast true
JsonViewer(data, err, old, es, cs, esChanged, csChanged) ==
    IF ViewState(data, err) = "Loaded"
    THEN AsNodes(JsonNode(data, <<>>, 0, old, es, cs, esChanged, csChanged))
    ELSE NoNodes

RECURSIVE ValueAt(_, _)
ValueAt(value, path) ==
    IF path = <<>> THEN value ELSE ValueAt(value.elems[Head(path)].val, Tail(path))

\* the isLast prop of the instance at a position of the tree data: true for
\* the root, index === childEntries.length - 1 for a child
IsLastProp(data, path) ==
    IF path = <<>> THEN TRUE
    ELSE (path[Len(path)] - 1) =
         Len(ValueAt(data, SubSeq(path, 1, Len(path) - 1)).elems) - 1

\* the props of the children an instance renders when it is an expanded,
\* non-empty container: one JsonNode per entry of Object.entries(value)
ChildProps(value, depth, expanded, expandAllSignal, collapseAllSignal) ==
    IF isExpandable(value) /\ expanded /\ ~isEmpty(value)
    THEN [i \in 1..Len(value.elems) |->
            [index |-> i - 1,
             keyName |-> IF getDataType(value) = "ARRAY" THEN Null
                         ELSE <<value.elems[i].key>>,
             value |-> value.elems[i].val,
             depth |-> depth + 1,
             isLast |-> (i - 1) = Len(value.elems) - 1,
             expandAllSignal |-> expandAllSignal,
             collapseAllSignal |-> collapseAllSignal]]
    ELSE <<>>

\* the props JsonViewer gives the root JsonNode (depth defaulted to 0)
RootProps(data, expandAllSignal, collapseAllSignal) ==
    [keyName |-> Null, value |-> data, depth |-> 0, isLast |-> TRUE,
     expandAllSignal |-> expandAllSignal, collapseAllSignal |-> collapseAllSignal]

\* mutant: the comma of the header row forgotten for an empty container
HeaderComma_CollapsedOnly(isLast, expanded, empty) == ~isLast /\ ~expanded
\* {!isLast && (!expanded || isEmpty) && ','}
HeaderComma(isLast, expanded, empty) == ~isLast /\ (~expanded \/ empty)

\* the rows one instance renders itself (its children render their own), each
\* with whether it ends with a comma
NodeRows(value, isLast, expanded) ==
    IF ~isExpandable(value)
    THEN {[row |-> "scalar", comma |-> ~isLast]}
    ELSE {[row |-> "header", comma |-> HeaderComma(isLast, expanded, isEmpty(value))]}
         \cup IF expanded /\ ~isEmpty(value)
              THEN {[row |-> "closing", comma |-> ~isLast]}
              ELSE {}

(***************************************************************************)
(* Copy.  JSON.stringify(value, null, 2) writes a line break and two       *)
(* spaces per level before every entry of a non-empty container, and one   *)
(* space after the colon of a member.                                      *)
(***************************************************************************)
RECURSIVE Indent(_)
Indent(n) == IF n = 0 THEN "\n" ELSE Indent(n - 1) \o " "
NewLine(level) == Tok("ws", Indent(2 * level))

\* a number: the non-finite ones are written null
NumberToJSON(lit) ==
    IF lit \in {"Infinity", "-Infinity", "NaN"} THEN TLit("null") ELSE TNum(lit)

RECURSIVE JSONstringify(_, _), StringifyEntries(_, _, _, _)
JSONstringify(value, level) ==
    IF value.js = "string" THEN <<TStr(value.lit)>>
    ELSE IF value.js = "number" THEN <<NumberToJSON(value.lit)>>
    ELSE IF value.js \in {"boolean", "null"} THEN <<TLit(value.lit)>>
    ELSE LET open == IF IsArray(value) THEN TPunct("[") ELSE TPunct("{")
             close == IF IsArray(value) THEN TPunct("]") ELSE TPunct("}")
         IN  IF Len(value.elems) = 0 THEN <<open, close>>
             ELSE <<open>> \o StringifyEntries(value, 1, level + 1, <<>>)
                  \o <<NewLine(level), close>>
StringifyEntries(value, i, level, acc) ==
    IF i > Len(value.elems) THEN acc
    ELSE LET sep == IF i = 1 THEN <<>> ELSE <<TPunct(",")>>
             name == IF IsArray(value) THEN <<>>
                     ELSE <<TStr(value.elems[i].key), TPunct(":"), TWs>>
         IN  StringifyEntries(value, i + 1, level,
                 acc \o sep \o <<NewLine(level)>> \o name
                     \o JSONstringify(value.elems[i].val, level))

\* String(value) of a string: its characters, as the tokens they form
StringOf(s) ==
    IF s = "" THEN <<>>
    ELSE IF s \in {"null", "true", "false"} THEN <<TLit(s)>>
    ELSE IF s \in {"1", "1.0", "1e999"} THEN <<TNum(s)>>
    ELSE <<Tok("raw", s)>>

\* textToCopy of handleCopyValue
TextToCopy(value) ==
    IF getDataType(value) = "STRING" THEN StringOf(value.lit)
    ELSE JSONstringify(value, 0)

(***************************************************************************)
(* App.                                                                    *)
(***************************************************************************)
\* mutant: blank content handed to the parser like any other
ParseEffect_NoBlankCheck(content) == safeJsonParse(content)
\* the parse effect, deps [activeTab.content]
ParseEffect(content) ==
    IF Trim(content) = <<>> THEN [parsed |-> Undefined, error |-> Null]
    ELSE safeJsonParse(content)

\* JsonViewer key={activeTab.id}
ViewerKey(ts, aid) == ActiveTabOf(ts, aid).id

\* mutant: the parse effect depending on the active tab id, not on its content
ContentChanged_IdOnly(ts, aid) == aid # activeTabId
\* the dependency of the parse effect: [activeTab.content]
ContentChanged(ts, aid) == ActiveTabOf(ts, aid).content # activeTab.content

\* One commit of App after a handler left the tab list ts and the active id
\* aid: the viewer is rendered with the parse outcome of the previous commit
\* (remounted when its key changed), then the parse effect runs if the
\* active content changed and the viewer is rendered again.
Commit(ts, aid) ==
    LET remount == ViewerKey(ts, aid) # ViewerKey(tabs, activeTabId)
        es == IF remount THEN 0 ELSE expandSignal
        cs == IF remount THEN 0 ELSE collapseSignal
        first == IF remount
                 THEN JsonViewer(parsedData, error, NoNodes, es, cs, FALSE, FALSE)
                 ELSE nodes
        reparse == ContentChanged(ts, aid)
        res == ParseEffect(ActiveTabOf(ts, aid).content)
        data == IF reparse THEN res.parsed ELSE parsedData
        err == IF reparse THEN res.error ELSE error
    IN  /\ tabs' = ts
        /\ activeTabId' = aid
        /\ parsedData' = data
        /\ error' = err
        /\ expandSignal' = es
        /\ collapseSignal' = cs
        /\ nodes' = JsonViewer(data, err, first, es, cs, FALSE, FALSE)
        /\ toggled' = (toggled /\ ~remount)

updateTabContent(ts, id, newContent) ==
    [i \in 1..Len(ts) |->
        IF ts[i].id = id THEN [ts[i] EXCEPT !.content = newContent] ELSE ts[i]]

Filter(ts, id) == SelectSeq(ts, LAMBDA t : t.id # id)

(***************************************************************************)
(* Theme.                                                                  *)
(***************************************************************************)
ThemeMode == {"light", "dark", "auto"}

\* what localStorage.getItem('theme') can return at startup
SavedThemes == {Null, <<"light">>, <<"dark">>, <<"auto">>, <<"blue">>}

\* the initializer of the theme cell
InitialTheme(saved) ==
    IF saved = <<"light">> \/ saved = <<"dark">> \/ saved = <<"auto">>
    THEN saved[1] ELSE "auto"

\* applyTheme of the effect's run for theme th: is the class 'dark' set
applyTheme(th, matches) ==
    IF th = "dark" THEN TRUE
    ELSE IF th = "light" THEN FALSE
    ELSE IF th = "auto" THEN matches
    ELSE FALSE

\* removeEventListener of the applyTheme that captured th
RemoveListener(ls, th) ==
    IF \E i \in 1..Len(ls) : ls[i] = th
    THEN LET i == CHOOSE k \in 1..Len(ls) : ls[k] = th /\ \A j \in 1..(k - 1) : ls[j] # th
         IN  SubSeq(ls, 1, i - 1) \o SubSeq(ls, i + 1, Len(ls))
    ELSE ls

\* mutant: the effect returns no cleanup
ThemeCleanup_None(ls, th) == ls
\* the cleanup the effect's run for theme th returned, if any
ThemeCleanup(ls, th) == IF th = "auto" THEN RemoveListener(ls, th) ELSE ls

\* if (theme === 'auto') mediaQuery.addEventListener('change', applyTheme)
ThemeSubscribe(ls, th) == IF th = "auto" THEN Append(ls, th) ELSE ls

\* mutant: dark is followed by light, auto is never entered
NextTheme_TwoWay(current) == IF current = "light" THEN "dark" ELSE "light"
\* the updater of cycleTheme
NextTheme(current) ==
    IF current = "light" THEN "dark"
    ELSE IF current = "dark" THEN "auto"
    ELSE "light"

\* the media query's change event: the listeners run in registration order
RECURSIVE FireListeners(_, _, _)
FireListeners(ls, matches, dark) ==
    IF ls = <<>> THEN dark
    ELSE FireListeners(Tail(ls), matches, applyTheme(Head(ls), matches))

(***************************************************************************)
(* The state after the first commit and its effects, for an environment:   *)
(* the saved theme, the system's color scheme and the clipboard's text.    *)
(***************************************************************************)
InitWith(saved, dark, clip) ==
    /\ theme = InitialTheme(saved)
    /\ savedTheme = <<InitialTheme(saved)>>
    /\ prefersDark = dark
    /\ isDark = applyTheme(InitialTheme(saved), dark)
    /\ listeners = ThemeSubscribe(<<>>, InitialTheme(saved))
    /\ startupTheme = saved
    /\ clipboard = clip
    /\ pending = <<>>
    /\ tabs = <<Tab("1", "Tab 1", DEFAULT_JSON)>>
    /\ activeTabId = "1"
    /\ toast = Null
    /\ toastTimer = "none"
    /\ parsedData = ParseEffect(DEFAULT_JSON).parsed
    /\ error = ParseEffect(DEFAULT_JSON).error
    /\ expandSignal = 0
    /\ collapseSignal = 0
    /\ nodes = JsonViewer(ParseEffect(DEFAULT_JSON).parsed, ParseEffect(DEFAULT_JSON).error,
                          NoNodes, 0, 0, FALSE, FALSE)
    /\ now = 0
    /\ toggled = FALSE
    /\ lastOp = "init"

Init == \E saved \in SavedThemes, dark \in BOOLEAN, clip \in {EmptyText} \cup PasteTexts :
            InitWith(saved, dark, clip)

\* a fresh profile: no saved theme, a light system, an empty clipboard
InitFresh == InitWith(Null, FALSE, EmptyText)

Tick ==
    /\ now < MaxNow
    /\ now' = now + 1
    /\ UNCHANGED <<tabs, activeTabId, toast, toastTimer, parsedData, error,
                   expandSignal, collapseSignal, nodes, toggled, lastOp>>
    /\ UNCHANGED <<themeVars, clipVars>>

addTab ==
    /\ Len(tabs) < MaxTabs
    /\ LET newId == DateNow
           newTab == Tab(newId, "Tab " \o ToString(Len(tabs) + 1), EmptyText)
       IN  Commit(Append(tabs, newTab), newId)
    /\ lastOp' = "addTab"
    /\ toastTimer' = ToastTimerAfter(toast, TRUE, toastTimer)
    /\ UNCHANGED <<toast, now, themeVars, clipVars>>

\* mutant: the replacement tab appended to the list that still holds the closed tab
FreshTabs_Appended(ts, newId) == Append(ts, Tab(newId, "Tab 1", EmptyText))
\* setTabs([{ id: newId, title: 'Tab 1', content: '' }])
FreshTabs(ts, newId) == <<Tab(newId, "Tab 1", EmptyText)>>

\* mutant: the active id left alone when the active tab is closed
NextActiveId_Stale(newTabs, id) == activeTabId
\* if (activeTabId === id) setActiveTabId(newTabs[newTabs.length - 1].id)
NextActiveId(newTabs, id) ==
    IF activeTabId = id THEN newTabs[Len(newTabs)].id ELSE activeTabId

\* history: where the tab at position k is after the tabs with id id are
\* filtered out of ts (0: it is closed, or was closed before)
PositionAfterClose(ts, k, id) ==
    IF k = 0 \/ ts[k].id = id THEN 0
    ELSE k - Cardinality({j \in 1..(k - 1) : ts[j].id = id})

\* the close button of a tab whose id is id
closeTab(id) ==
    /\ \E i \in 1..Len(tabs) : tabs[i].id = id
    /\ LET newTabs == Filter(tabs, id) IN
       IF Len(newTabs) = 0
       THEN /\ Commit(FreshTabs(tabs, DateNow), DateNow)
            /\ lastOp' = "closeOnly"
       ELSE /\ Commit(newTabs, NextActiveId(newTabs, id))
            /\ lastOp' = IF activeTabId = id THEN "closeActive" ELSE "closeOther"
    /\ pending' = [k \in 1..Len(pending) |->
                     [pending[k] EXCEPT !.tab = PositionAfterClose(tabs, @, id)]]
    /\ toastTimer' = ToastTimerAfter(toast, TRUE, toastTimer)
    /\ UNCHANGED <<toast, now, themeVars, clipboard>>

selectTab(id) ==
    /\ \E i \in 1..Len(tabs) : tabs[i].id = id
    /\ Commit(tabs, id)
    /\ lastOp' = "selectTab"
    /\ toastTimer' = ToastTimerAfter(toast, id # activeTabId, toastTimer)
    /\ UNCHANGED <<toast, now, themeVars, clipVars>>

\* a paste event outside INPUT/TEXTAREA carrying a non-empty text: the user
\* copied the text, unless the clipboard held it already, and pressed Ctrl+V
handlePaste(text) ==
    /\ text # EmptyText
    /\ Commit(updateTabContent(tabs, activeTabId, text), activeTabId)
    /\ toast' = Toast("JSON pasted successfully!", "success")
    /\ toastTimer' = ToastTimerAfter(toast', TRUE, toastTimer)
    /\ lastOp' = "paste"
    /\ clipboard' = text
    /\ UNCHANGED <<now, themeVars, pending>>

\* the Clear button is offered by the Error and the Loaded presentation
handleClear ==
    /\ ViewState(parsedData, error) # "Empty"
    /\ Commit(updateTabContent(tabs, activeTabId, EmptyText), activeTabId)
    /\ toast' = Toast("Cleared workspace", "success")
    /\ toastTimer' = ToastTimerAfter(toast', TRUE, toastTimer)
    /\ lastOp' = "clear"
    /\ UNCHANGED <<now, themeVars, clipVars>>

\* 4000 ms pass without a render of App: the timeout of the Toast is due
TimerElapse ==
    /\ toastTimer = "armed"
    /\ toastTimer' = "due"
    /\ UNCHANGED <<tabs, activeTabId, toast, parsedData, error,
                   expandSignal, collapseSignal, nodes, now, toggled, lastOp>>
    /\ UNCHANGED <<themeVars, clipVars>>

\* the timeout's callback runs onClose, () => setToast(null)
ToastClose ==
    /\ toast # Null
    /\ toastTimer = "due"
    /\ toast' = Null
    /\ toastTimer' = ToastTimerAfter(toast', TRUE, toastTimer)
    /\ UNCHANGED <<tabs, activeTabId, parsedData, error,
                   expandSignal, collapseSignal, nodes, now, toggled, lastOp>>
    /\ UNCHANGED <<themeVars, clipVars>>

\* click on the header row of a mounted container
handleToggle(path) ==
    /\ path \in DOMAIN nodes
    /\ isExpandable(ValueAt(parsedData, path))
    /\ nodes' = JsonViewer(parsedData, error, [nodes EXCEPT ![path] = ~@],
                           expandSignal, collapseSignal, FALSE, FALSE)
    /\ toggled' = TRUE
    /\ lastOp' = "toggle"
    /\ UNCHANGED <<tabs, activeTabId, toast, toastTimer, parsedData, error,
                   expandSignal, collapseSignal, now, themeVars, clipVars>>

\* the Copy button of a mounted node; success is whether writeText resolved
handleCopyValue(path, success) ==
    /\ path \in DOMAIN nodes
    /\ clipboard' = IF success THEN TextToCopy(ValueAt(parsedData, path)) ELSE clipboard
    /\ lastOp' = IF success THEN "copy" ELSE "copyFailed"
    /\ UNCHANGED <<tabs, activeTabId, toast, toastTimer, parsedData, error, expandSignal,
                   collapseSignal, nodes, now, toggled, themeVars, pending>>

\* toolbar button Expand (Loaded presentation)
ExpandAll ==
    /\ ViewState(parsedData, error) = "Loaded"
    /\ expandSignal < MaxSignal
    /\ expandSignal' = expandSignal + 1
    /\ nodes' = JsonViewer(parsedData, error, nodes,
                           expandSignal + 1, collapseSignal, TRUE, FALSE)
    /\ lastOp' = "expandAll"
    /\ UNCHANGED <<tabs, activeTabId, toast, toastTimer, parsedData, error,
                   collapseSignal, now, toggled, themeVars, clipVars>>

\* toolbar button Collapse (Loaded presentation)
CollapseAll ==
    /\ ViewState(parsedData, error) = "Loaded"
    /\ collapseSignal < MaxSignal
    /\ collapseSignal' = collapseSignal + 1
    /\ nodes' = JsonViewer(parsedData, error, nodes,
                           expandSignal, collapseSignal + 1, FALSE, TRUE)
    /\ lastOp' = "collapseAll"
    /\ UNCHANGED <<tabs, activeTabId, toast, toastTimer, parsedData, error,
                   expandSignal, now, toggled, themeVars, clipVars>>

\* the theme button of the header
cycleTheme ==
    /\ theme' = NextTheme(theme)
    /\ isDark' = applyTheme(NextTheme(theme), prefersDark)
    /\ savedTheme' = <<NextTheme(theme)>>
    /\ listeners' = ThemeSubscribe(ThemeCleanup(listeners, theme), NextTheme(theme))
    /\ lastOp' = "cycleTheme"
    /\ toastTimer' = ToastTimerAfter(toast, TRUE, toastTimer)
    /\ UNCHANGED <<prefersDark, startupTheme, clipVars>>
    /\ UNCHANGED <<tabs, activeTabId, toast, parsedData, error,
                   expandSignal, collapseSignal, nodes, now, toggled>>

\* the system's color scheme changes; the media query notifies its listeners
SystemPreferenceChange ==
    /\ prefersDark' = ~prefersDark
    /\ isDark' = FireListeners(listeners, ~prefersDark, isDark)
    /\ lastOp' = "preferenceChange"
    /\ UNCHANGED <<theme, savedTheme, listeners, startupTheme, clipVars>>
    /\ UNCHANGED <<tabs, activeTabId, toast, toastTimer, parsedData, error,
                   expandSignal, collapseSignal, nodes, now, toggled>>

BlockedToast == Toast("Browser blocked access. Please press Ctrl + V", "error")

\* the Paste button (Error and Empty presentations): handlePasteFromClipboard
\* up to its await; available is whether navigator.clipboard exists
handlePasteFromClipboard(available) ==
    /\ ViewState(parsedData, error) # "Loaded"
    /\ IF available
       THEN /\ Len(pending) < MaxPending
            /\ pending' = Append(pending, [id |-> activeTabId, tab |-> ActivePosition])
            /\ lastOp' = "readText"
            /\ UNCHANGED <<toast, toastTimer>>
       ELSE /\ toast' = BlockedToast
            /\ toastTimer' = ToastTimerAfter(toast', TRUE, toastTimer)
            /\ lastOp' = "readFailed"
            /\ UNCHANGED pending
    /\ UNCHANGED <<tabs, activeTabId, parsedData, error, expandSignal,
                   collapseSignal, nodes, now, toggled, themeVars, clipboard>>

\* readText() of the i-th read in flight resolves with the clipboard's text
readTextResolved(i) ==
    /\ i \in 1..Len(pending)
    /\ pending' = SubSeq(pending, 1, i - 1) \o SubSeq(pending, i + 1, Len(pending))
    /\ IF clipboard = EmptyText
       THEN /\ toast' = BlockedToast
            /\ toastTimer' = ToastTimerAfter(toast', TRUE, toastTimer)
            /\ lastOp' = "readEmpty"
            /\ UNCHANGED <<tabs, activeTabId, parsedData, error,
                           expandSignal, collapseSignal, nodes, toggled>>
       ELSE /\ Commit(updateTabContent(tabs, pending[i].id, clipboard), activeTabId)
            /\ toast' = Toast("Pasted from clipboard!", "success")
            /\ toastTimer' = ToastTimerAfter(toast', TRUE, toastTimer)
            /\ lastOp' = "readPasted"
    /\ UNCHANGED <<now, themeVars, clipboard>>

\* readText() of the i-th read in flight rejects (permission denied)
readTextRejected(i) ==
    /\ i \in 1..Len(pending)
    /\ pending' = SubSeq(pending, 1, i - 1) \o SubSeq(pending, i + 1, Len(pending))
    /\ toast' = BlockedToast
    /\ toastTimer' = ToastTimerAfter(toast', TRUE, toastTimer)
    /\ lastOp' = "readFailed"
    /\ UNCHANGED <<tabs, activeTabId, parsedData, error, expandSignal,
                   collapseSignal, nodes, now, toggled, themeVars, clipboard>>

\* the user copies a text, or something that is no text, in another program
CopyElsewhere(text) ==
    /\ clipboard # text
    /\ clipboard' = text
    /\ UNCHANGED <<tabs, activeTabId, toast, toastTimer, parsedData, error, expandSignal,
                   collapseSignal, nodes, now, toggled, lastOp, themeVars, pending>>

Next ==
    \/ Tick
    \/ addTab
    \/ \E i \in 1..Len(tabs) : closeTab(tabs[i].id)
    \/ \E i \in 1..Len(tabs) : selectTab(tabs[i].id)
    \/ \E text \in PasteTexts : handlePaste(text)
    \/ handleClear
    \/ TimerElapse
    \/ ToastClose
    \/ \E path \in DOMAIN nodes : handleToggle(path)
    \/ ExpandAll
    \/ CollapseAll
    \/ cycleTheme
    \/ SystemPreferenceChange
    \/ \E available \in BOOLEAN : handlePasteFromClipboard(available)
    \/ \E i \in 1..Len(pending) : readTextResolved(i)
    \/ \E i \in 1..Len(pending) : readTextRejected(i)
    \/ \E text \in {EmptyText} \cup PasteTexts : CopyElsewhere(text)
    \/ \E path \in DOMAIN nodes, success \in BOOLEAN : handleCopyValue(path, success)

Spec == Init /\ [][Next]_vars

(***************************************************************************)
(* The tab operations alone.  The viewer's operations (toggle, expand all, *)
(* collapse all) and the toast's timer leave tabs, activeTabId and now     *)
(* unchanged, and no tab operation reads the viewer's state.               *)
(***************************************************************************)
NextTabs ==
    \/ Tick
    \/ addTab
    \/ \E i \in 1..Len(tabs) : closeTab(tabs[i].id)
    \/ \E i \in 1..Len(tabs) : selectTab(tabs[i].id)
    \/ \E text \in PasteTexts : handlePaste(text)
    \/ handleClear

SpecTabs == InitFresh /\ [][NextTabs]_vars

(***************************************************************************)
(* The viewer's operations together with every operation that changes what *)
(* the viewer shows, within one millisecond of the clock (the clock only   *)
(* decides the ids of new tabs).                                           *)
(***************************************************************************)
NextView ==
    \/ addTab
    \/ \E i \in 1..Len(tabs) : closeTab(tabs[i].id)
    \/ \E i \in 1..Len(tabs) : selectTab(tabs[i].id)
    \/ \E text \in PasteTexts : handlePaste(text)
    \/ handleClear
    \/ \E path \in DOMAIN nodes : handleToggle(path)
    \/ ExpandAll
    \/ CollapseAll

SpecView == InitFresh /\ [][NextView]_vars

(***************************************************************************)
(* The parser, the classifier and the viewer's choice of presentation over *)
(* the texts of a bounded set: the clipboard holds any one of them when    *)
(* the page is loaded, and the user pastes it into the only tab and clears *)
(* the workspace.                                                          *)
(***************************************************************************)
InitParse == \E clip \in TextsUpTo(MaxLen) \cup SampleTexts : InitWith(Null, FALSE, clip)

NextParse ==
    \/ handlePaste(clipboard)
    \/ handleClear

SpecParse == InitParse /\ [][NextParse]_vars

(***************************************************************************)
(* The nodes of one tab: sample texts are pasted, containers are toggled,  *)
(* nodes are copied and what was copied is pasted back.                    *)
(***************************************************************************)
NextNode ==
    \/ \E text \in SampleTexts : handlePaste(text)
    \/ handlePaste(clipboard)
    \/ \E path \in DOMAIN nodes : handleToggle(path)
    \/ \E path \in DOMAIN nodes, success \in BOOLEAN : handleCopyValue(path, success)

SpecNode == InitFresh /\ [][NextNode]_vars

(***************************************************************************)
(* The theme: the page is loaded with any saved theme and any system color *)
(* scheme, the theme button is pressed and the system's scheme changes,    *)
(* while tabs are added and selected (renders that leave the theme alone). *)
(***************************************************************************)
InitTheme == \E saved \in SavedThemes, dark \in BOOLEAN : InitWith(saved, dark, EmptyText)

NextThemeOps ==
    \/ cycleTheme
    \/ SystemPreferenceChange
    \/ addTab
    \/ \E i \in 1..Len(tabs) : selectTab(tabs[i].id)

SpecTheme == InitTheme /\ [][NextThemeOps]_vars

(***************************************************************************)
(* The Paste button: the clipboard's text changes at any time, a read of   *)
(* it is started from the Empty or the Error presentation and settles      *)
(* later, while tabs are added, closed and selected and the toast's timer  *)
(* runs.                                                                   *)
(***************************************************************************)
NextClip ==
    \/ addTab
    \/ \E i \in 1..Len(tabs) : closeTab(tabs[i].id)
    \/ \E i \in 1..Len(tabs) : selectTab(tabs[i].id)
    \/ handleClear
    \/ TimerElapse
    \/ ToastClose
    \/ \E available \in BOOLEAN : handlePasteFromClipboard(available)
    \/ \E i \in 1..Len(pending) : readTextResolved(i)
    \/ \E i \in 1..Len(pending) : readTextRejected(i)
    \/ \E text \in {EmptyText} \cup PasteTexts : CopyElsewhere(text)

SpecClip == InitFresh /\ [][NextClip]_vars

(***************************************************************************)
(* The notification: the operations that raise it or render App while it   *)
(* is shown, and its timeout.  A timeout that is set elapses and the       *)
(* browser then runs its callback, unless the timeout is cleared first:    *)
(* both steps are weakly fair.                                             *)
(***************************************************************************)
NextToast ==
    \/ Tick
    \/ addTab
    \/ \E i \in 1..Len(tabs) : closeTab(tabs[i].id)
    \/ \E i \in 1..Len(tabs) : selectTab(tabs[i].id)
    \/ \E text \in PasteTexts : handlePaste(text)
    \/ handleClear
    \/ TimerElapse
    \/ ToastClose

SpecToast ==
    InitFresh /\ [][NextToast]_vars /\ WF_vars(TimerElapse) /\ WF_vars(ToastClose)

(***************************************************************************)
(* Vocabulary of the properties.                                           *)
(***************************************************************************)
\* the positions of all nodes of a value, the root being <<>>
RECURSIVE PathsOf(_, _)
PathsOf(value, path) ==
    {path} \cup UNION { PathsOf(value.elems[i].val, Append(path, i)) :
                        i \in 1..Len(value.elems) }
Loaded == ViewState(parsedData, error) = "Loaded"
DataPaths == IF Loaded THEN PathsOf(parsedData, <<>>) ELSE {}
Containers == {p \in DataPaths : isExpandable(ValueAt(parsedData, p))}
MountedContainers == {p \in DOMAIN nodes : isExpandable(ValueAt(parsedData, p))}
\* a tree with a node three levels below the root
DeepTree == \E p \in DataPaths : Len(p) >= 3
DefaultFlag(p) == Len(p) < 2
AllDefault == \A p \in MountedContainers : nodes[p] = DefaultFlag(p)
AllExpanded == \A p \in Containers : p \in DOMAIN nodes /\ nodes[p]
UniqueIds == \A i, j \in 1..Len(tabs) : i # j => tabs[i].id # tabs[j].id
RemoveAt(ts, i) == SubSeq(ts, 1, i - 1) \o SubSeq(ts, i + 1, Len(ts))

(***************************************************************************)
(* C1.  In a loaded tree of depth >= 3 in its default state, collapse-all  *)
(* followed by expand-all leaves every container of the tree mounted and   *)
(* expanded, at every depth.                                               *)
(* The state after collapse-all on an untouched viewer has counters (0, 1),*)
(* no toggle, and collapse-all as its last operation.                      *)
(***************************************************************************)
C1_CollapseThenExpand ==
    [][ ( /\ lastOp = "collapseAll" /\ ~toggled
          /\ expandSignal = 0 /\ collapseSignal = 1
          /\ DeepTree
          /\ ExpandAll )
        => AllExpanded' ]_vars

(***************************************************************************)
(* C2.  A container reacts only to a change of a counter, never to its     *)
(* value: across a step that changes neither counter, an instance that     *)
(* stays mounted and is not toggled keeps its flag, and an instance that   *)
(* is created has its default flag, also when a counter is already > 0.    *)
(***************************************************************************)
C2_ReactsOnlyToChange ==
    [][ (expandSignal' = expandSignal /\ collapseSignal' = collapseSignal)
        => \A p \in MountedContainers' :
              IF p \in DOMAIN nodes /\ ViewerKey(tabs, activeTabId)' = ViewerKey(tabs, activeTabId)
              THEN lastOp' # "toggle" => nodes'[p] = nodes[p]
              ELSE nodes'[p] = DefaultFlag(p) ]_vars

(***************************************************************************)
(* C3.  After new content is pasted into the active tab, every container   *)
(* of the rebuilt tree has its default flag (expanded iff depth < 2),      *)
(* whatever toggles, expand-all or collapse-all happened before.           *)
(***************************************************************************)
C3_PasteResetsVisibility ==
    [][ (\E text \in PasteTexts : handlePaste(text)) => AllDefault' ]_vars

(***************************************************************************)
(* C4.  After every tab switch (a new tab is added, the active tab is      *)
(* closed, another tab is selected) both counters are 0 and every          *)
(* container of the shown tree has its default flag.                       *)
(***************************************************************************)
TabSwitch ==
    \/ addTab
    \/ \E i \in 1..Len(tabs) : tabs[i].id = activeTabId /\ closeTab(tabs[i].id)
    \/ \E i \in 1..Len(tabs) : tabs[i].id # activeTabId /\ selectTab(tabs[i].id)
C4_TabSwitchMountsFresh ==
    [][ TabSwitch => (expandSignal' = 0 /\ collapseSignal' = 0 /\ AllDefault') ]_vars

(***************************************************************************)
(* C5.  At least one tab exists in every reachable state, and closing the  *)
(* only remaining tab leaves exactly one tab.                              *)
(***************************************************************************)
C5_AtLeastOneTab ==
    /\ Len(tabs) >= 1
    /\ lastOp = "closeOnly" => Len(tabs) = 1
C5_Witness == lastOp = "closeOnly" /\ Len(tabs) = 1 /\ tabs[1].id # "1"

(***************************************************************************)
(* C6.  In every reachable state the active tab id is the id of a tab of   *)
(* the tab list.                                                           *)
(***************************************************************************)
C6_ActiveIdExists == \E i \in 1..Len(tabs) : tabs[i].id = activeTabId
C6_Witness ==
    /\ lastOp = "closeActive"
    /\ Len(tabs) >= 1
    /\ activeTabId = tabs[Len(tabs)].id

(***************************************************************************)
(* C7.  No two tabs of the tab list have the same id.                      *)
(***************************************************************************)
C7_TabIdsUnique == UniqueIds

(***************************************************************************)
(* C8.  Closing the active tab while other tabs remain: if it was not the  *)
(* last tab the active id becomes the id of the previously last tab, if it *)
(* was the last tab the id of the new last tab; the other tabs keep their  *)
(* order, ids and content.                                                 *)
(***************************************************************************)
C8_CloseActiveTab ==
    [][ \A i \in 1..Len(tabs) :
          (Len(tabs) > 1 /\ tabs[i].id = activeTabId /\ closeTab(tabs[i].id))
          => /\ tabs' = RemoveAt(tabs, i)
             /\ activeTabId' = IF i < Len(tabs) THEN tabs[Len(tabs)].id
                               ELSE tabs[Len(tabs) - 1].id ]_vars

(***************************************************************************)
(* C9.  Closing the only open tab leaves exactly one tab, with empty       *)
(* content and an id different from the id of the tab just closed, and     *)
(* that tab is the active tab.                                             *)
(***************************************************************************)
C9_CloseOnlyTab ==
    [][ (Len(tabs) = 1 /\ closeTab(tabs[1].id))
        => /\ Len(tabs') = 1
           /\ tabs'[1].content = EmptyText
           /\ tabs'[1].id # tabs[1].id
           /\ activeTabId' = tabs'[1].id ]_vars

(***************************************************************************)
(* C10.  In a viewer in which neither expand-all nor collapse-all was      *)
(* invoked and no node was toggled, every node of the loaded tree whose    *)
(* ancestors are non-empty containers of depth < 2 is mounted, no other is,*)
(* and each mounted container is expanded iff its depth is less than 2     *)
(* (the root has depth 0, a child its parent's depth + 1).                 *)
(***************************************************************************)
RECURSIVE DefaultMounted(_)
DefaultMounted(p) ==
    \/ p = <<>>
    \/ LET parent == SubSeq(p, 1, Len(p) - 1) IN
       /\ DefaultMounted(parent)
       /\ isExpandable(ValueAt(parsedData, parent))
       /\ Len(parent) < 2
C10_DefaultExpansion ==
    (Loaded /\ expandSignal = 0 /\ collapseSignal = 0 /\ ~toggled)
    => /\ DOMAIN nodes = {p \in DataPaths : DefaultMounted(p)}
       /\ \A p \in MountedContainers : nodes[p] = (Len(p) < 2)
C10_Witness ==
    /\ Loaded /\ expandSignal = 0 /\ collapseSignal = 0 /\ ~toggled
    /\ lastOp = "paste"
    /\ \E p \in MountedContainers : Len(p) = 2 /\ ~nodes[p]
    /\ \E p \in MountedContainers : Len(p) = 1 /\ nodes[p]
    /\ \E p \in Containers : p \notin DOMAIN nodes

\* C11: when the viewer of a loaded tree of depth at least three was in its
\* default state, Expand was pressed once and Collapse is pressed next, no
\* mounted container at depth one or more is expanded afterwards.
C11_ExpandThenCollapse ==
    [][ ( /\ DeepTree /\ lastOp = "expandAll" /\ ~toggled
          /\ expandSignal = 1 /\ collapseSignal = 0
          /\ CollapseAll )
        => \A p \in MountedContainers' : Len(p) >= 1 => ~nodes'[p] ]_vars
C11_Witness ==
    /\ DeepTree /\ lastOp = "collapseAll" /\ ~toggled
    /\ expandSignal = 1 /\ collapseSignal = 1
    /\ \A p \in MountedContainers : ~nodes[p]

\* C12: while the active tab's content is empty or consists of white space
\* only, the parse outcome is no value and no error and the viewer is in its
\* Empty presentation.
C12_BlankIsEmptyState ==
    Trim(activeTab.content) = <<>>
    => /\ parsedData = Undefined
       /\ error = Null
       /\ ViewState(parsedData, error) = "Empty"
C12_Witness ==
    /\ lastOp = "paste"
    /\ activeTab.content # EmptyText
    /\ Trim(activeTab.content) = <<>>
    /\ ViewState(parsedData, error) = "Empty"

\* C13: while the active tab's content is not blank and JSON.parse rejects
\* it, the parse outcome is a diagnostic message and no value and the viewer
\* is in its Error presentation; the outcome never holds both a value and a
\* diagnostic.
C13_MalformedIsErrorState ==
    /\ (Trim(activeTab.content) # <<>> /\ ~JSONparse(activeTab.content).ok)
       => /\ parsedData = Undefined
          /\ error # Null /\ error[1] # ""
          /\ ViewState(parsedData, error) = "Error"
    /\ ~(parsedData # Undefined /\ error # Null)
C13_Witness ==
    /\ lastOp = "paste"
    /\ activeTab.content = BareKeyText
    /\ parsedData = Undefined
    /\ error = <<UnexpectedToken>>
    /\ ViewState(parsedData, error) = "Error"

\* C18: every value in the parsed tree is classified by the kind of value it
\* is (null NULL, array ARRAY, other object OBJECT, string STRING, number
\* NUMBER, boolean BOOLEAN), never UNKNOWN; a value that is none of these
\* (undefined) is classified UNKNOWN.
C18_ClassifierTotal ==
    /\ getDataType(Undefined) = "UNKNOWN"
    /\ Loaded =>
         \A p \in DataPaths :
            LET v == ValueAt(parsedData, p)
                kind == getDataType(v)
            IN  /\ kind \in DataType \ {"UNKNOWN"}
                /\ (kind = "NULL") = (v.js = "null")
                /\ (kind = "ARRAY") = (v.js = "array")
                /\ (kind = "OBJECT") = (v.js = "object")
                /\ (kind = "STRING") = (v.js = "string")
                /\ (kind = "NUMBER") = (v.js = "number")
                /\ (kind = "BOOLEAN") = (v.js = "boolean")
C18_Witness ==
    /\ Loaded /\ lastOp = "paste"
    /\ \E p \in DataPaths : getDataType(ValueAt(parsedData, p)) = "NULL"
    /\ \E p \in DataPaths : getDataType(ValueAt(parsedData, p)) = "ARRAY"

\* C14: the notice of a clipboard read that found the clipboard empty and
\* the notice of a clipboard read that failed are worded differently: when
\* one of the two follows the other while its notice is still shown, the
\* message of the notice changes.
C14_EmptyNoticeDiffers ==
    [][ ( /\ toast # Null /\ toast' # Null
          /\ \/ lastOp = "readFailed" /\ lastOp' = "readEmpty"
             \/ lastOp = "readEmpty" /\ lastOp' = "readFailed" )
        => toast'[1].msg # toast[1].msg ]_vars

\* the position of the active tab in the tab list
ActiveIndex ==
    CHOOSE i \in 1..Len(tabs) : tabs[i] = activeTab /\ \A j \in 1..(i - 1) : tabs[j] # activeTab

\* C15: a paste of a non-empty text makes the pasted text the whole content
\* of the active tab and changes neither the tab's id and title, nor any
\* other tab, nor the number of tabs, nor the active tab id.
C15_PasteFrame ==
    [][ \A text \in PasteTexts :
          handlePaste(text)
          => /\ activeTabId' = activeTabId
             /\ Len(tabs') = Len(tabs)
             /\ \A i \in 1..Len(tabs) :
                   tabs'[i] = IF i = ActiveIndex
                              THEN [tabs[i] EXCEPT !.content = text]
                              ELSE tabs[i] ]_vars

\* a node with a later sibling in the parsed tree
HasLaterSibling(p) ==
    /\ p # <<>>
    /\ \E q \in DataPaths :
          /\ Len(q) = Len(p)
          /\ SubSeq(q, 1, Len(q) - 1) = SubSeq(p, 1, Len(p) - 1)
          /\ q[Len(q)] > p[Len(p)]
RowsAt(p) == NodeRows(ValueAt(parsedData, p), IsLastProp(parsedData, p), nodes[p])
CommaOn(p, row) == \E r \in RowsAt(p) : r.row = row /\ r.comma

\* C16: every mounted node with a later sibling renders exactly one comma
\* and every node without one (the root included) renders none: a scalar on
\* its row, an empty or a collapsed container on its header row, an expanded
\* non-empty container on its closing-bracket row and not on its header row.
C16_TrailingCommas ==
    \A p \in DOMAIN nodes :
        LET v == ValueAt(parsedData, p)
            commas == {r \in RowsAt(p) : r.comma}
        IN  /\ Cardinality(commas) = IF HasLaterSibling(p) THEN 1 ELSE 0
            /\ HasLaterSibling(p) =>
                  IF ~isExpandable(v) THEN CommaOn(p, "scalar")
                  ELSE IF isEmpty(v) \/ ~nodes[p] THEN CommaOn(p, "header")
                  ELSE CommaOn(p, "closing") /\ ~CommaOn(p, "header")
C16_Witness ==
    /\ activeTab.content = SiblingsText
    /\ lastOp = "toggle"
    /\ \E p \in DOMAIN nodes :
          isEmpty(ValueAt(parsedData, p)) /\ nodes[p] /\ HasLaterSibling(p)
    /\ \E p \in DOMAIN nodes :
          ~isExpandable(ValueAt(parsedData, p)) /\ HasLaterSibling(p)
    /\ \E p \in DOMAIN nodes :
          isEmpty(ValueAt(parsedData, p)) /\ ~nodes[p] /\ ~HasLaterSibling(p)

\* the nesting level of the token at position i of a text
Level(text, i) ==
    Cardinality({j \in 1..(i - 1) : text[j] \in {TPunct("["), TPunct("{")}})
    - Cardinality({j \in 1..(i - 1) : text[j] \in {TPunct("]"), TPunct("}")}})
\* every line break of the text is followed by two spaces per nesting level
TwoSpaceIndented(text) ==
    \A i \in 1..Len(text) :
        (text[i].k = "ws" /\ text[i] # TWs)
        => LET closes == i < Len(text) /\ text[i + 1] \in {TPunct("]"), TPunct("}")}
               level == Level(text, i) - (IF closes THEN 1 ELSE 0)
           IN  text[i].s = Indent(2 * level)

\* C17: a successful copy of a string node leaves the characters of the
\* string, without quotes, on the clipboard; a successful copy of any other
\* node leaves a text that is indented by two spaces per level and that
\* JSON.parse turns into the value of the node.
C17_CopyRoundTrip ==
    [][ \A p \in DOMAIN nodes :
          handleCopyValue(p, TRUE)
          => LET v == ValueAt(parsedData, p) IN
             IF v.js = "string"
             THEN /\ clipboard' = StringOf(v.lit)
                  /\ \A i \in 1..Len(clipboard') : clipboard'[i].k # "str"
             ELSE /\ TwoSpaceIndented(clipboard')
                  /\ JSONparse(clipboard').ok
                  /\ JSONparse(clipboard').val = v ]_vars

\* C19: the theme is always light, dark or auto and equals the saved item;
\* at startup it is the item found if that was light, dark or auto, and auto
\* otherwise; a change of the theme goes from light to dark, from dark to
\* auto and from auto to light.
C19_ThemePersisted ==
    /\ theme = (IF startupTheme # Null /\ startupTheme[1] \in {"light", "dark", "auto"}
                THEN startupTheme[1] ELSE "auto")
    /\ [](theme \in {"light", "dark", "auto"} /\ savedTheme = <<theme>>)
    /\ [][ theme' # theme
           => \/ theme = "light" /\ theme' = "dark"
              \/ theme = "dark" /\ theme' = "auto"
              \/ theme = "auto" /\ theme' = "light" ]_vars
C19_Witness ==
    /\ startupTheme = <<"blue">>
    /\ lastOp = "cycleTheme"
    /\ theme = "dark"
    /\ savedTheme = <<"dark">>

\* C20: at most one listener of the system's color scheme is registered, and
\* one is registered exactly while the theme is auto; a change of the
\* system's scheme changes the applied appearance only while the theme is
\* auto, where the appearance follows the system.
C20_ListenerOnlyInAuto ==
    /\ [](Len(listeners) <= 1 /\ (Len(listeners) = 1) = (theme = "auto"))
    /\ [][ prefersDark' # prefersDark
           => IF theme = "auto" THEN isDark' = prefersDark' ELSE isDark' = isDark ]_vars
C20_Witness ==
    /\ startupTheme = Null
    /\ lastOp = "preferenceChange"
    /\ theme = "light"
    /\ listeners = <<>>
    /\ prefersDark /\ ~isDark

\* the keys on the way from the root to a position
RECURSIVE KeysAlong(_, _)
KeysAlong(value, path) ==
    IF path = <<>> THEN <<>>
    ELSE <<value.elems[Head(path)].key>>
         \o KeysAlong(value.elems[Head(path)].val, Tail(path))
RECURSIVE ValueAtKeys(_, _)
ValueAtKeys(value, keys) ==
    IF keys = <<>> THEN value
    ELSE LET i == CHOOSE k \in 1..Len(value.elems) : value.elems[k].key = Head(keys)
         IN  ValueAtKeys(value.elems[i].val, Tail(keys))
\* the keys of the container at a position, in the order the text of the
\* active tab introduces them
EncounterKeys(p) ==
    LET created == ValueAtKeys(ParseValue(activeTab.content, 1).val, KeysAlong(parsedData, p))
    IN  [i \in 1..Len(created.elems) |-> created.elems[i].key]
MountedChildren(p) ==
    {q \in DOMAIN nodes : Len(q) = Len(p) + 1 /\ SubSeq(q, 1, Len(p)) = p}

\* C21: a mounted container that is expanded and not empty has exactly one
\* mounted child per entry, the i-th child showing the i-th entry in the
\* order of the text (objects) or of the indices (arrays), with depth one
\* more than the container, no key under an array and the entry's key under
\* an object, isLast for the final entry only and the viewer's two counters;
\* a collapsed or empty container has no mounted child; the root has no key,
\* depth 0 and isLast.
C21_ChildrenPerEntry ==
    /\ Loaded => /\ <<>> \in DOMAIN nodes
                 /\ RootProps(parsedData, expandSignal, collapseSignal).keyName = Null
                 /\ RootProps(parsedData, expandSignal, collapseSignal).depth = 0
                 /\ RootProps(parsedData, expandSignal, collapseSignal).isLast
    /\ \A p \in DOMAIN nodes :
          LET v == ValueAt(parsedData, p)
              kids == ChildProps(v, Len(p), nodes[p], expandSignal, collapseSignal)
          IN  /\ MountedChildren(p) = {Append(p, i) : i \in 1..Len(kids)}
              /\ IF v.js \in {"array", "object"} /\ nodes[p] /\ Len(v.elems) > 0
                 THEN /\ Len(kids) = Len(v.elems)
                      /\ \A i \in 1..Len(kids) :
                            /\ kids[i].depth = Len(p) + 1
                            /\ kids[i].isLast = (i = Len(kids))
                            /\ kids[i].expandAllSignal = expandSignal
                            /\ kids[i].collapseAllSignal = collapseSignal
                            /\ kids[i].value = ValueAt(parsedData, Append(p, i))
                            /\ IF v.js = "array"
                               THEN kids[i].keyName = Null /\ kids[i].index = i - 1
                               ELSE kids[i].keyName = <<EncounterKeys(p)[i]>>
                 ELSE kids = <<>>

\* C22: no node is mounted under a collapsed container, and a container
\* that a step mounts anew is collapsed when the collapse-all counter is
\* above 0, otherwise expanded when the expand-all counter is above 0 or its
\* depth is below 2, whatever flag an earlier instance at its position had.
C22_CollapseForgetsDescendants ==
    /\ [](\A q \in DOMAIN nodes :
            q # <<>> => LET parent == SubSeq(q, 1, Len(q) - 1)
                        IN  parent \in DOMAIN nodes /\ nodes[parent])
    /\ [][ \A q \in DOMAIN nodes' :
             (q \notin DOMAIN nodes /\ isExpandable(ValueAt(parsedData', q)))
             => nodes'[q] = IF collapseSignal' > 0 THEN FALSE
                            ELSE IF expandSignal' > 0 THEN TRUE
                            ELSE Len(q) < 2 ]_vars
\* the initial text with its first-level containers, expanded when the
\* viewer was mounted, collapsed after Collapse and then Expand
C22_Witness ==
    /\ activeTab.content = DEFAULT_JSON
    /\ lastOp = "expandAll" /\ ~toggled
    /\ expandSignal = 1 /\ collapseSignal = 1
    /\ nodes[<<>>]
    /\ \E q \in MountedContainers : Len(q) = 1 /\ ~nodes[q]

\* C23: a clipboard read that resolves with a text makes that text the
\* content of the tab that was active when the Paste button was pressed,
\* wherever that tab is now and whichever tab is active now, and leaves the
\* other tabs and the active tab id unchanged; when that tab was closed in
\* the meantime no tab changes; in both cases the success notice is shown.
C23_PasteTargetsInvokingTab ==
    [][ \A i \in 1..Len(pending) :
          (readTextResolved(i) /\ clipboard # EmptyText)
          => /\ toast' = Toast("Pasted from clipboard!", "success")
             /\ activeTabId' = activeTabId
             /\ Len(tabs') = Len(tabs)
             /\ \A j \in 1..Len(tabs) :
                   tabs'[j] = IF j = pending[i].tab
                              THEN [tabs[j] EXCEPT !.content = clipboard]
                              ELSE tabs[j] ]_vars

\* C24: in every state the parsed value and the error handed to the viewer
\* are the outcome of parsing the active tab's present content (no value and
\* no error for blank content), whatever tabs were added, selected, closed,
\* pasted into and cleared before.
C24_ViewerShowsActiveContent ==
    LET content == activeTab.content
        outcome == IF Trim(content) = <<>>
                   THEN [parsed |-> Undefined, error |-> Null]
                   ELSE safeJsonParse(content)
    IN  parsedData = outcome.parsed /\ error = outcome.error
C24_Witness ==
    /\ lastOp = "selectTab"
    /\ Len(tabs) = 2
    /\ activeTab.content = DEFAULT_JSON
    /\ \E i \in 1..Len(tabs) : tabs[i].content = BadText
    /\ error = Null
    /\ parsedData = JSONparse(DEFAULT_JSON).val

\* a step in which a state cell of App is set and App renders
AppStateChange ==
    \/ addTab
    \/ \E i \in 1..Len(tabs) : closeTab(tabs[i].id)
    \/ \E i \in 1..Len(tabs) : tabs[i].id # activeTabId /\ selectTab(tabs[i].id)
    \/ \E text \in PasteTexts : handlePaste(text)
    \/ handleClear
    \/ ToastClose

\* C25: at most one notification exists at a time, the one raised last (a
\* newer one replaces the older, none is queued); its timeout runs exactly
\* while it is shown and is set anew by every render of App that leaves a
\* notification shown; and unless App's state keeps changing forever, the
\* notification is dismissed and none is shown from then on.
C25_ToastDismissed ==
    /\ [](Len(toast) <= 1 /\ ((toast = Null) <=> (toastTimer = "none")))
    /\ [][(\E text \in PasteTexts : handlePaste(text))
             => toast' = Toast("JSON pasted successfully!", "success")]_vars
    /\ [][handleClear => toast' = Toast("Cleared workspace", "success")]_vars
    /\ [][(AppStateChange /\ toast' # Null) => toastTimer' = "armed"]_vars
    /\ [][(toast # Null /\ toast' = Null) => toastTimer = "due"]_vars
    /\ (([]<><<AppStateChange>>_vars) \/ <>[](toast = Null))
\* a notification was raised by a paste, a tab was added while it was shown
\* and its timeout was due, and the notification has been dismissed since
C25_Witness ==
    /\ toast = Null
    /\ toastTimer = "none"
    /\ lastOp = "addTab"
    /\ activeTab.content = EmptyText
    /\ \E i \in 1..Len(tabs) : tabs[i].content \in PasteTexts

====
